---- MODULE Spec2Model ----
(***************************************************************************)
(* A model of the RivRetrieve acquisition framework: the get_data pipeline *)
(* of the provider adapters, the Lithuanian sliding-window rate limiter,   *)
(* the Brazilian token cache, the retrying transport and the bulk cache of *)
(* the archive-only providers.                                             *)
(*                                                                         *)
(* Time of observations is counted in half days: stamp 2*d is midnight of  *)
(* day d and stamp 2*d+1 is noon of day d.  Day 0 stands for 1900-01-01    *)
(* (the default start) and day MaxDay for today (the default end).         *)
(***************************************************************************)
EXTENDS Integers, Sequences, FiniteSets, TLC

\* ------------------------------------------------------------------ bounds
MaxDay == 1          \* days 0..MaxDay exist on the model's calendar
MaxLen == 2          \* longest raw payload (records) a provider returns
MaxCalls == 4        \* throttled requests followed in one behaviour
MaxClock == 1300     \* last instant (tenths of a second) of the throttle clock
MaxTokenCalls == 4     \* _get_token calls in one run
MaxTokenClock == 1700  \* last instant (seconds) of the token clock
MaxBulkCalls == 4      \* get_data calls made against the bulk providers

\* --------------------------------------------------------------- constants
DISCHARGE_DAILY_MEAN == "discharge_daily_mean"
DISCHARGE_INSTANT == "discharge_instantaneous"
STAGE_DAILY_MEAN == "stage_daily_mean"
STAGE_DAILY_MAX == "stage_daily_max"
STAGE_HOURLY_MEAN == "stage_hourly_mean"
STAGE_INSTANT == "stage_instantaneous"
Bogus == "bogus_variable"

NoDate == -1         \* the caller passed None
BadDate == -2        \* the caller passed a string that is not YYYY-MM-DD
NoValue == -1        \* a row whose value is absent (NaN)

Days == 0..MaxDay
Stamps == 0..(2 * MaxDay + 1)
Values == {1000, 3000}
Rows == [t : Stamps, v : Values]

DayOf(t) == t \div 2
Midnight(d) == 2 * d

RECURSIVE SeqsUpTo(_)
SeqsUpTo(n) ==
  IF n = 0 THEN {<<>>}
  ELSE LET shorter == SeqsUpTo(n - 1)
       IN shorter \cup {Append(s, r) : s \in {x \in shorter : Len(x) = n - 1}, r \in Rows}

Payloads == SeqsUpTo(MaxLen)

\* ------------------------------------------------------- utils.format_*_date
format_start_date(d) == IF d = NoDate THEN 0 ELSE d
format_end_date(d) == IF d = NoDate THEN MaxDay ELSE d

\* ------------------------------------------------------ frame operations
RECURSIVE Pick(_, _, _)
Pick(s, K, i) ==
  IF i > Len(s) THEN <<>>
  ELSE (IF i \in K THEN <<s[i]>> ELSE <<>>) \o Pick(s, K, i + 1)

\* .dt.date: the time of day is dropped
TruncDate(rows) ==
  [i \in DOMAIN rows |-> [t |-> Midnight(DayOf(rows[i].t)), v |-> rows[i].v]]

\* value / divisor
Scale(rows, div) ==
  [i \in DOMAIN rows |-> [t |-> rows[i].t, v |-> rows[i].v \div div]]

\* drop_duplicates(subset=time, keep="first")
DropDuplicates(rows) ==
  Pick(rows, {i \in DOMAIN rows : \A j \in 1..(i - 1) : rows[j].t # rows[i].t}, 1)

InsertRow(r, s) ==
  LET k == Cardinality({i \in DOMAIN s : s[i].t <= r.t})
  IN SubSeq(s, 1, k) \o <<r>> \o SubSeq(s, k + 1, Len(s))

\* sort_values(by=time), a stable sort
RECURSIVE SortValues(_)
SortValues(rows) ==
  IF rows = <<>> THEN <<>>
  ELSE InsertRow(rows[Len(rows)], SortValues(SubSeq(rows, 1, Len(rows) - 1)))

RECURSIVE FillFrom(_, _, _)
FillFrom(rows, d, last) ==
  IF d > last THEN <<>>
  ELSE LET K == {i \in DOMAIN rows : rows[i].t = Midnight(d)}
       IN (IF K = {} THEN <<[t |-> Midnight(d), v |-> NoValue]>> ELSE Pick(rows, K, 1))
          \o FillFrom(rows, d + 1, last)

\* merge(complete_ts, df, how="left") over date_range(min, max, freq="D")
GapFill(rows) ==
  IF rows = <<>> THEN <<>>
  ELSE LET ds == {DayOf(rows[i].t) : i \in DOMAIN rows}
           lo == CHOOSE d \in ds : \A x \in ds : d <= x
           hi == CHOOSE d \in ds : \A x \in ds : d >= x
       IN FillFrom(rows, lo, hi)

\* the final date filter of get_data
Clip(rows, mode, s, e) ==
  LET keep(t) == CASE mode = "closed" -> Midnight(s) <= t /\ t <= Midnight(e)
                   [] mode = "endplus" -> Midnight(s) <= t /\ t < Midnight(e + 1)
                   [] OTHER -> TRUE
  IN Pick(rows, {i \in DOMAIN rows : keep(rows[i].t)}, 1)

\* ------------------------------------------------------- provider adapters
(* Each adapter is described by what its get_data, _download_data and      *)
(* _parse_data do:                                                         *)
(*   vars        get_available_variables()                                 *)
(*   construct   "ok", or the exception __init__ raises                    *)
(*   credGate    "first":  get_data returns an empty frame before any      *)
(*                         check when the credential is missing;           *)
(*               "column": the same, but the empty frame is built with     *)
(*                         utils.get_column_name(variable);                *)
(*               "none":   the provider needs no credential                *)
(*   varFirst    the variable check precedes the date formatting           *)
(*   guard       download and parse run inside try/except Exception        *)
(*   dlRaises    _download_data lets a failed request propagate            *)
(*   parseRaises _parse_data lets a malformed payload propagate            *)
(*   trunc       variables whose timestamps are reduced to their date      *)
(*   dedupe      "first" (drop_duplicates) or "none"                       *)
(*   sorts       the parsed rows are sorted by time                        *)
(*   gapfill     missing days are merged in as rows without value          *)
(*   clip        "closed": start <= t <= end (end at midnight),            *)
(*               "endplus": start <= t < end + 1 day, "none"               *)
(*   div         divisor applied to the raw value, per variable            *)
(*   native      number of provider units in one SI unit, per variable     *)
(***************************************************************************)
AllVariables ==
  {DISCHARGE_DAILY_MEAN, DISCHARGE_INSTANT, STAGE_DAILY_MEAN, STAGE_DAILY_MAX,
   STAGE_HOURLY_MEAN, STAGE_INSTANT, "discharge_hourly_mean", "discharge_monthly_mean",
   "water-temperature_daily_mean", "water-temperature_hourly_mean",
   "water-temperature_instantaneous", "discharge_monthly_max", "discharge_monthly_min",
   "stage_monthly_max", "stage_monthly_min", "water-temperature_monthly_mean",
   "stage", "discharge", Bogus}

StageVariables ==
  {STAGE_DAILY_MEAN, STAGE_DAILY_MAX, STAGE_HOURLY_MEAN, STAGE_INSTANT,
   "stage_monthly_max", "stage_monthly_min", "stage"}

Ones == [x \in AllVariables |-> 1]
CmStage(S) == [x \in AllVariables |-> IF x \in S THEN 100 ELSE 1]

SwedenFetcher ==
  [name |-> "sweden", construct |-> "ok", credGate |-> "none", varFirst |-> FALSE,
   vars |-> {DISCHARGE_DAILY_MEAN, DISCHARGE_INSTANT, STAGE_INSTANT,
             "water-temperature_instantaneous", "discharge_monthly_mean"},
   guard |-> FALSE, dlRaises |-> TRUE, parseRaises |-> FALSE,
   trunc |-> {}, dedupe |-> "none", sorts |-> TRUE, gapfill |-> FALSE, clip |-> "closed",
   div |-> Ones, native |-> CmStage({STAGE_INSTANT})]

AustriaFetcher ==
  [name |-> "austria", construct |-> "ok", credGate |-> "none", varFirst |-> FALSE,
   vars |-> {DISCHARGE_DAILY_MEAN, STAGE_DAILY_MEAN, "discharge_monthly_max",
             "discharge_monthly_min", "stage_monthly_max", "stage_monthly_min",
             "water-temperature_monthly_mean"},
   guard |-> FALSE, dlRaises |-> FALSE, parseRaises |-> FALSE,
   trunc |-> {}, dedupe |-> "none", sorts |-> FALSE, gapfill |-> FALSE, clip |-> "closed",
   div |-> Ones, native |-> Ones]

LithuaniaFetcher ==
  [name |-> "lithuania", construct |-> "ok", credGate |-> "none", varFirst |-> FALSE,
   vars |-> {DISCHARGE_DAILY_MEAN, STAGE_DAILY_MEAN},
   guard |-> TRUE, dlRaises |-> FALSE, parseRaises |-> FALSE,
   trunc |-> {}, dedupe |-> "none", sorts |-> TRUE, gapfill |-> FALSE, clip |-> "endplus",
   div |-> CmStage({STAGE_DAILY_MEAN}), native |-> CmStage({STAGE_DAILY_MEAN})]

NorwayFetcher ==
  [name |-> "norway", construct |-> "ok", credGate |-> "first", varFirst |-> FALSE,
   vars |-> {STAGE_DAILY_MEAN, DISCHARGE_DAILY_MEAN, "water-temperature_daily_mean",
             STAGE_HOURLY_MEAN, "discharge_hourly_mean", "water-temperature_hourly_mean",
             STAGE_INSTANT, DISCHARGE_INSTANT, "water-temperature_instantaneous"},
   guard |-> TRUE, dlRaises |-> FALSE, parseRaises |-> FALSE,
   trunc |-> {STAGE_DAILY_MEAN, DISCHARGE_DAILY_MEAN, "water-temperature_daily_mean"},
   dedupe |-> "none", sorts |-> TRUE, gapfill |-> FALSE, clip |-> "none",
   div |-> Ones, native |-> Ones]

FranceFetcher ==
  [name |-> "france", construct |-> "ok", credGate |-> "none", varFirst |-> FALSE,
   vars |-> {DISCHARGE_DAILY_MEAN, STAGE_DAILY_MAX},
   guard |-> TRUE, dlRaises |-> TRUE, parseRaises |-> FALSE,
   trunc |-> {DISCHARGE_DAILY_MEAN, STAGE_DAILY_MAX},
   dedupe |-> "none", sorts |-> TRUE, gapfill |-> FALSE, clip |-> "none",
   div |-> [x \in AllVariables |-> 1000], native |-> [x \in AllVariables |-> 1000]]

JapanFetcher ==
  [name |-> "japan", construct |-> "ok", credGate |-> "none", varFirst |-> FALSE,
   vars |-> {STAGE_HOURLY_MEAN, STAGE_DAILY_MEAN, "discharge_hourly_mean", DISCHARGE_DAILY_MEAN},
   guard |-> TRUE, dlRaises |-> FALSE, parseRaises |-> FALSE,
   trunc |-> {}, dedupe |-> "none", sorts |-> TRUE, gapfill |-> FALSE, clip |-> "endplus",
   div |-> Ones, native |-> Ones]

CzechFetcher ==
  [name |-> "czech", construct |-> "ok", credGate |-> "none", varFirst |-> FALSE,
   vars |-> {DISCHARGE_DAILY_MEAN, STAGE_DAILY_MEAN, "water-temperature_daily_mean",
             DISCHARGE_INSTANT, STAGE_INSTANT},
   guard |-> TRUE, dlRaises |-> FALSE, parseRaises |-> FALSE,
   trunc |-> {}, dedupe |-> "none", sorts |-> TRUE, gapfill |-> FALSE, clip |-> "closed",
   div |-> CmStage({STAGE_DAILY_MEAN, STAGE_INSTANT}),
   native |-> CmStage({STAGE_DAILY_MEAN, STAGE_INSTANT})]

UKEAFetcher ==
  [name |-> "uk_ea", construct |-> "ok", credGate |-> "none", varFirst |-> FALSE,
   vars |-> {DISCHARGE_DAILY_MEAN, STAGE_INSTANT},
   guard |-> TRUE, dlRaises |-> TRUE, parseRaises |-> TRUE,
   trunc |-> {DISCHARGE_DAILY_MEAN, STAGE_INSTANT},
   dedupe |-> "none", sorts |-> FALSE, gapfill |-> TRUE, clip |-> "closed",
   div |-> Ones, native |-> Ones]

SouthKoreaFetcher ==
  [name |-> "southkorea", construct |-> "ok", credGate |-> "none", varFirst |-> FALSE,
   vars |-> {DISCHARGE_DAILY_MEAN, STAGE_DAILY_MEAN, STAGE_HOURLY_MEAN},
   guard |-> TRUE, dlRaises |-> FALSE, parseRaises |-> FALSE,
   trunc |-> {}, dedupe |-> "first", sorts |-> TRUE, gapfill |-> FALSE, clip |-> "closed",
   div |-> Ones, native |-> Ones]

GermanyBerlinFetcher ==
  [name |-> "germany_berlin", construct |-> "ok", credGate |-> "none", varFirst |-> FALSE,
   vars |-> {STAGE_DAILY_MEAN, DISCHARGE_DAILY_MEAN, "water-temperature_daily_mean",
             STAGE_INSTANT, DISCHARGE_INSTANT},
   guard |-> TRUE, dlRaises |-> TRUE, parseRaises |-> TRUE,
   trunc |-> {}, dedupe |-> "none", sorts |-> TRUE, gapfill |-> FALSE, clip |-> "closed",
   div |-> CmStage({STAGE_DAILY_MEAN}),
   native |-> CmStage({STAGE_DAILY_MEAN, STAGE_INSTANT})]

BrazilFetcher ==
  [name |-> "brazil", construct |-> "TypeError", credGate |-> "column", varFirst |-> FALSE,
   vars |-> {"stage", "discharge"},
   guard |-> TRUE, dlRaises |-> TRUE, parseRaises |-> TRUE,
   trunc |-> {}, dedupe |-> "none", sorts |-> TRUE, gapfill |-> FALSE, clip |-> "closed",
   div |-> CmStage({"stage"}), native |-> CmStage({"stage"})]

Adapters ==
  {SwedenFetcher, AustriaFetcher, LithuaniaFetcher, NorwayFetcher, FranceFetcher,
   JapanFetcher, CzechFetcher, UKEAFetcher, SouthKoreaFetcher, GermanyBerlinFetcher,
   BrazilFetcher}

AdapterNames == {A.name : A \in Adapters}
AdapterOf(n) == CHOOSE A \in Adapters : A.name = n
NeedsCredentials(A) == A.credGate # "none"

\* -------------------------------------------------------------- _parse_data
_parse_data(A, variable, raw) ==
  LET r1 == IF variable \in A.trunc THEN TruncDate(raw) ELSE raw
      r2 == Scale(r1, A.div[variable])
      r3 == IF A.dedupe = "first" THEN DropDuplicates(r2) ELSE r2
      r4 == IF A.sorts THEN SortValues(r3) ELSE r3
  IN IF A.gapfill THEN GapFill(r4) ELSE r4

\* ----------------------------------------------------------------- get_data
(* What one get_data call returns: kind is "frame" (a table, possibly      *)
(* empty), "ValueError" or "Exception" (a download or parse error that     *)
(* escaped); requested tells whether the call reached the network.         *)
(* outcome is what the provider does during the call: "ok" (it answers     *)
(* with raw), "net" (every request fails after the retries or answers with *)
(* an HTTP error status) or "malformed" (it answers with a payload the     *)
(* parser cannot read).                                                    *)
Frame(rows, req) == [kind |-> "frame", rows |-> rows, requested |-> req]
Raise(kind, req) == [kind |-> kind, rows |-> <<>>, requested |-> req]

get_data(A, hasKey, variable, start_date, end_date, outcome, raw) ==
  LET s == format_start_date(start_date)
      e == format_end_date(end_date)
      badDates == start_date = BadDate \/ end_date = BadDate
      fetch ==
        CASE outcome = "net" ->
               IF ~A.dlRaises THEN Frame(<<>>, TRUE)
               ELSE IF A.guard THEN Frame(<<>>, TRUE) ELSE Raise("Exception", TRUE)
          [] outcome = "malformed" ->
               IF ~A.parseRaises THEN Frame(<<>>, TRUE)
               ELSE IF A.guard THEN Frame(<<>>, TRUE) ELSE Raise("Exception", TRUE)
          [] OTHER -> Frame(Clip(_parse_data(A, variable, raw), A.clip, s, e), TRUE)
  IN IF A.credGate = "first" /\ ~hasKey THEN Frame(<<>>, FALSE)
     ELSE IF A.credGate = "column" /\ ~hasKey
       THEN (IF variable \in A.vars THEN Frame(<<>>, FALSE) ELSE Raise("ValueError", FALSE))
     ELSE IF A.varFirst /\ variable \notin A.vars THEN Raise("ValueError", FALSE)
     ELSE IF badDates THEN Raise("ValueError", FALSE)
     ELSE IF variable \notin A.vars THEN Raise("ValueError", FALSE)
     ELSE fetch

\* ------------------------------------------------------------------- state
VARIABLES
  fetcher,       \* name of the adapter instance in use, "none" before construction
  hasKey,        \* the instance holds a credential (api_key / username+password)
  constructed,   \* "no", "ok" or the exception the constructor raised
  call,          \* arguments and provider behaviour of the last get_data call
  response,      \* what that call returned or raised
  request_times, \* LithuaniaFetcher.request_times, the sliding window
  clock,         \* time.time() of the throttle model, in tenths of a second
  recorded,      \* every timestamp _throttle_requests has appended, in order
  token,         \* BrazilFetcher._token (0 stands for None / an empty token)
  token_expiry,  \* BrazilFetcher._token_expiry
  tclock,        \* time.time() of the token model, in seconds
  tlast,         \* what the last _get_token call did
  attempt,       \* requests sent so far for the call in the retrying transport
  retry,         \* the Retry counters of that call
  rstate,        \* "idle", "sending", "returned" or "raised"
  rlast,         \* the last answer the transport saw
  store,         \* the bulk cache on disk: "missing" or "built"
  builds,        \* bulk builds that wrote the store
  downloads,     \* archive downloads started
  bcalls,        \* get_data calls made against the bulk provider
  blast,         \* what the last bulk get_data call did
  pool,          \* scripts/download_all.py: the executor, its tasks and the output files
  rep,           \* repeated get_data calls against one fixed provider behaviour
  meta,          \* cached_site_data/<country>_sites.csv and the last metadata call
  walk,          \* the last _download_data walk over sub-ranges: what it requested and kept
  thr            \* the worker threads of download_all: where each one is inside a shared fetcher

pipeVars == <<fetcher, hasKey, constructed, call, response>>
throttleVars == <<request_times, clock, recorded>>
tokenVars == <<token, token_expiry, tclock, tlast>>
retryVars == <<attempt, retry, rstate, rlast>>
bulkVars == <<store, builds, downloads, bcalls, blast>>
baseVars == <<pipeVars, throttleVars, tokenVars, retryVars, bulkVars>>
restVars == <<pool, rep, meta, walk, thr>>
vars == <<baseVars, restVars>>

NoCall == [variable |-> "none", start |-> NoDate, end |-> NoDate, outcome |-> "ok", raw |-> <<>>]
NoResponse == [kind |-> "none", rows |-> <<>>, requested |-> FALSE]

CallVariables == {DISCHARGE_DAILY_MEAN, STAGE_DAILY_MEAN, STAGE_INSTANT, Bogus}
DateArgs == Days \cup {NoDate, BadDate}
Outcomes == {"ok", "net", "malformed"}

\* -------------------------------------------------------------------- Init
\* the stateful providers called repeatedly, and the start dates they are called with
RepeatProviders == {"poland", "austria", "brazil", "lithuania"}
RepeatKeys == RepeatProviders \X {NoDate, MaxDay}
NoFixture == [set |-> FALSE]
\* providers whose metadata calls are followed; Bundled is the site file as shipped
MetaProviders == {"austria", "norway"}
Bundled == 0
\* no _download_data walk has been made, or its result has been taken
NoWalk == [adapter |-> "none"]
\* scripts/download_all.py: N_WORKERS
N_WORKERS == 1
\* requests_retry_session(retries=3, ...)
retries == 3
InitRetry == [total |-> retries, connect |-> retries, read |-> retries]
BulkProviders == {"poland", "austria"}
\* ThreadPoolExecutor(max_workers=args.n_workers): the worker threads
MaxThreads == 2
Threads == 1..MaxThreads
Idle == [pc |-> "idle"]

Init ==
  /\ fetcher = "none" /\ hasKey = FALSE /\ constructed = "no"
  /\ call = NoCall /\ response = NoResponse
  /\ request_times = <<>> /\ clock = 0 /\ recorded = <<>>
  /\ token = 0 /\ token_expiry = 0 /\ tclock = 1
  /\ tlast = [n |-> 0, called |-> FALSE, exchanged |-> FALSE, returned |-> 0, at |-> 0,
              done |-> 0, tokenBefore |-> 0, expiryBefore |-> 0, answer |-> "none"]
  /\ attempt = 0 /\ retry = InitRetry /\ rstate = "idle" /\ rlast = <<>>
  /\ store = [p \in BulkProviders |-> "missing"]
  /\ builds = 0 /\ downloads = 0 /\ bcalls = 0
  /\ blast = [provider |-> "none", storeBefore |-> "none", kind |-> "none",
              downloaded |-> FALSE, wrote |-> FALSE]
  /\ pool = [state |-> "idle", n_workers |-> N_WORKERS, variable |-> DISCHARGE_DAILY_MEAN,
             pending |-> {}, running |-> {}, finished |-> {}, calls |-> <<>>, files |-> {}]
  /\ rep = [fixture |-> NoFixture, n |-> 0, seen |-> [k \in RepeatKeys |-> {}]]
  /\ meta = [file |-> [p \in MetaProviders |-> Bundled], n |-> 0,
             last |-> [provider |-> "none", call |-> "none", before |-> Bundled,
                       result |-> "none"]]
  /\ walk = NoWalk
  /\ thr = [w \in Threads |-> Idle]

\* ------------------------------------------------ the get_data pipeline
\* XFetcher(...): the constructor of an adapter, with or without credential
Construct(n, k) ==
  /\ response.kind = "none"
  /\ fetcher' = n
  /\ hasKey' = k
  /\ constructed' = AdapterOf(n).construct
  /\ call' = NoCall
  /\ response' = NoResponse
  /\ UNCHANGED restVars /\ UNCHANGED <<throttleVars, tokenVars, retryVars, bulkVars>>

\* fetcher.get_data(gauge_id, variable, start_date, end_date)
GetData(variable, start, end, outcome, raw) ==
  /\ constructed = "ok"
  /\ response.kind = "none"
  /\ call' = [variable |-> variable, start |-> start, end |-> end,
              outcome |-> outcome, raw |-> raw]
  /\ response' = get_data(AdapterOf(fetcher), hasKey, variable, start, end, outcome, raw)
  /\ UNCHANGED restVars /\ UNCHANGED <<fetcher, hasKey, constructed, throttleVars, tokenVars, retryVars, bulkVars>>

\* the caller takes the returned frame (or handles the exception); the
\* instance is ready for its next call
Consume ==
  /\ response.kind # "none"
  /\ call' = NoCall
  /\ response' = NoResponse
  /\ UNCHANGED restVars /\ UNCHANGED <<fetcher, hasKey, constructed, throttleVars, tokenVars, retryVars, bulkVars>>

NextPipeline ==
  \/ Consume
  \/ /\ response.kind = "none"
     /\ \E n \in AdapterNames, k \in BOOLEAN :
          /\ (k => NeedsCredentials(AdapterOf(n)))
          /\ Construct(n, k)
  \/ /\ constructed = "ok" /\ response.kind = "none"
     /\ \E variable \in CallVariables, start \in DateArgs, end \in DateArgs,
           outcome \in Outcomes, raw \in Payloads :
          /\ (outcome # "ok" => raw = <<>>)
          /\ GetData(variable, start, end, outcome, raw)

SpecPipeline == Init /\ [][NextPipeline]_vars

\* the call reached the provider and the provider answered with data
Answered == constructed = "ok" /\ response.kind = "frame" /\ call.outcome = "ok"
             /\ response.requested
CalledStart == format_start_date(call.start)
CalledEnd == format_end_date(call.end)
Index == [i \in DOMAIN response.rows |-> response.rows[i].t]

\* C1: every exception raised while downloading or parsing is turned into
\* an empty frame inside get_data; only ValueError for an unsupported
\* variable or a malformed date escapes a call.
C1_NeverRaisesForUnavailability ==
  /\ response.kind # "Exception"
  /\ response.kind = "ValueError" =>
       (call.variable \notin AdapterOf(fetcher).vars \/ BadDate \in {call.start, call.end})

\* C2: a get_data call with a variable outside get_available_variables()
\* raises ValueError and issues no network request, whatever the gauge, the
\* dates and the credential state.
C2_UnsupportedVariableRaises ==
  (constructed = "ok" /\ call.variable # "none"
     /\ call.variable \notin AdapterOf(fetcher).vars)
    => (response.kind = "ValueError" /\ ~response.requested)

\* C3: every timestamp of the returned series lies in the requested closed
\* interval of dates, start <= date(t) <= end.
C3_WithinRequestedInterval ==
  response.kind = "frame" =>
    \A i \in DOMAIN response.rows :
      CalledStart <= DayOf(response.rows[i].t) /\ DayOf(response.rows[i].t) <= CalledEnd

\* C4: the time index of the returned series is strictly increasing.
C4_StrictlyIncreasingIndex ==
  response.kind = "frame" =>
    \A i \in DOMAIN Index : \A j \in DOMAIN Index : i < j => Index[i] < Index[j]

\* C5: a stage value is returned in metres: the raw value divided by the
\* number of provider units in one metre (100 for centimetres).
C5_StageInMetres ==
  (Answered /\ call.variable \in StageVariables) =>
    \A i \in DOMAIN response.rows :
      response.rows[i].v # NoValue =>
        \E j \in DOMAIN call.raw :
          response.rows[i].v = call.raw[j].v \div AdapterOf(fetcher).native[call.variable]

\* C10: a credentialed provider constructed without its credential is
\* constructed successfully and each get_data call on it returns an empty
\* frame, raises nothing and sends no request.
C10_MissingCredentialsDisable ==
  (fetcher # "none" /\ NeedsCredentials(AdapterOf(fetcher)) /\ ~hasKey)
    => /\ constructed = "ok"
       /\ (call.variable # "none"
             => response.kind = "frame" /\ response.rows = <<>> /\ ~response.requested)

\* ------------------------------------------ LithuaniaFetcher._throttle_requests
(* Time is counted in tenths of a second.  The code's cap of 180 requests  *)
(* per window is scaled down to Cap; the window and the safety buffer keep *)
(* their values.                                                           *)
Cap == 2
Window == 600
Buffer == 1
Elapsed == {300, 600, 601}
Jitter == {0, 1}

\* while self.request_times and now - self.request_times[0] > 60: popleft()
RECURSIVE Evict(_, _)
Evict(q, now) ==
  IF q # <<>> /\ now - q[1] > Window THEN Evict(Tail(q), now) ELSE q

\* wait_time = 60 - (now - self.request_times[0]) + 0.1
WaitTimeNone(q, now) == 0
WaitTime(q, now) == Window - (now - q[1]) + Buffer

\* deque(maxlen=180).append: a full deque drops its oldest entry
DequeAppend(q, x) ==
  IF Len(q) >= Cap THEN Append(Tail(q), x) ELSE Append(q, x)

\* time passes between two requests
Elapse(d) ==
  /\ clock + d <= MaxClock
  /\ clock' = clock + d
  /\ UNCHANGED restVars /\ UNCHANGED <<request_times, recorded, pipeVars, tokenVars, retryVars, bulkVars>>

\* one call of _throttle_requests; over is how much longer than asked
\* time.sleep slept, lag the time between the last eviction and the append
ThrottleRequests(over, lag) ==
  LET now == clock
      q1 == Evict(request_times, now)
      full == Len(q1) >= Cap
      now2 == IF full THEN now + WaitTime(q1, now) + over ELSE now
      q2 == IF full THEN Evict(q1, now2) ELSE q1
      stamp == now2 + lag
  IN /\ Len(recorded) < MaxCalls
     /\ stamp <= MaxClock
     /\ request_times' = DequeAppend(q2, stamp)
     /\ recorded' = Append(recorded, stamp)
     /\ clock' = stamp
     /\ UNCHANGED restVars /\ UNCHANGED <<pipeVars, tokenVars, retryVars, bulkVars>>

NextThrottle ==
  \/ \E d \in Elapsed : Elapse(d)
  \/ \E over \in Jitter, lag \in Jitter : ThrottleRequests(over, lag)

SpecThrottle == Init /\ [][NextThrottle]_vars

\* C6: the (k+Cap)-th recorded request is never earlier than one window
\* after the k-th, so no window of 60 s holds more than Cap recorded requests.
C6_AtMostCapPerWindow ==
  \A k \in DOMAIN recorded :
    k + Cap \in DOMAIN recorded => recorded[k + Cap] >= recorded[k] + Window

\* a request found the window full and was held back until the oldest expired
C6_Witness ==
  /\ Len(recorded) > Cap
  /\ recorded[Cap] - recorded[1] < Window
  /\ recorded[Cap + 1] <= recorded[1] + Window + Buffer + 2

\* ------------------------------------------------- BrazilFetcher._get_token
(* Time is counted in seconds.  Token 0 stands for None and for the empty  *)
(* string, the values Python treats as false.                              *)
TokenLifetime == 840
TokenElapsed == {839, 840}
Latency == {0, 1}
Tokens == {0, 1, 2}
AuthAnswers == {"ok", "rejected", "error"}
NoTokenCall == [n |-> 0, called |-> FALSE, exchanged |-> FALSE, returned |-> 0, at |-> 0,
                done |-> 0, tokenBefore |-> 0, expiryBefore |-> 0, answer |-> "none"]

\* the assignments of BrazilFetcher.__init__: credentials kept, no token cached
BrazilInit(k) ==
  /\ hasKey' = k
  /\ token' = 0
  /\ token_expiry' = 0
  /\ tlast' = [NoTokenCall EXCEPT !.n = tlast.n]
  /\ UNCHANGED restVars /\ UNCHANGED <<fetcher, constructed, call, response, tclock,
                 throttleVars, retryVars, bulkVars>>

TokenElapse(d) ==
  /\ tclock + d <= MaxTokenClock
  /\ tclock' = tclock + d
  /\ UNCHANGED restVars /\ UNCHANGED <<token, token_expiry, tlast, pipeVars, throttleVars, retryVars, bulkVars>>

\* if self._token and time.time() < self._token_expiry
TokenValidLate(tok, expiry, now) == tok # 0 /\ now <= expiry
TokenValid(tok, expiry, now) == tok # 0 /\ now < expiry

\* one call of _get_token; answer is what the authentication endpoint does,
\* newtok the token it hands out, latency the duration of the exchange
GetToken(answer, newtok, latency) ==
  LET at == tclock
      cached == hasKey /\ TokenValid(token, token_expiry, at)
      exchange == hasKey /\ ~cached
      done == IF exchange THEN at + latency ELSE at
      success == exchange /\ answer = "ok"
  IN /\ tlast.n < MaxTokenCalls
     /\ done <= MaxTokenClock
     /\ tclock' = done
     /\ token' = IF success THEN newtok ELSE token
     /\ token_expiry' = IF success THEN done + TokenLifetime ELSE token_expiry
     /\ tlast' = [n |-> tlast.n + 1, called |-> hasKey, exchanged |-> exchange,
                  returned |-> IF cached THEN token ELSE IF success THEN newtok ELSE 0,
                  at |-> at, done |-> done, tokenBefore |-> token,
                  expiryBefore |-> token_expiry,
                  answer |-> IF exchange THEN answer ELSE "none"]
     /\ UNCHANGED restVars /\ UNCHANGED <<pipeVars, throttleVars, retryVars, bulkVars>>

NextToken ==
  \/ \E k \in BOOLEAN : BrazilInit(k)
  \/ \E d \in TokenElapsed : TokenElapse(d)
  \/ \E answer \in AuthAnswers, newtok \in Tokens, latency \in Latency :
       GetToken(answer, newtok, latency)

SpecToken == Init /\ [][NextToken]_vars

\* C7: the token getter exchanges credentials only when no token is cached
\* or the call is made at or past the cached expiry; before the expiry it
\* returns the cached token without a request, at or after it a fresh
\* exchange is made, and a successful exchange caches the new token with
\* expiry 840 s after the exchange.
C7_ExchangeOnlyWhenStale ==
  tlast.called =>
    /\ tlast.exchanged => (tlast.tokenBefore = 0 \/ tlast.at >= tlast.expiryBefore)
    /\ (tlast.tokenBefore # 0 /\ tlast.at < tlast.expiryBefore)
         => (~tlast.exchanged /\ tlast.returned = tlast.tokenBefore)
    /\ (tlast.tokenBefore # 0 /\ tlast.at >= tlast.expiryBefore) => tlast.exchanged
    /\ (tlast.exchanged /\ tlast.answer = "ok")
         => (token = tlast.returned /\ token_expiry = tlast.done + TokenLifetime)

\* a cached token is replaced by a call made exactly at its expiry
C7_Witness ==
  /\ tlast.called /\ tlast.exchanged /\ tlast.answer = "ok"
  /\ tlast.tokenBefore # 0 /\ tlast.at = tlast.expiryBefore
  /\ token_expiry = tlast.done + TokenLifetime

\* --------------------------------------------- utils.requests_retry_session
(* The session mounts urllib3's Retry on both schemes.  Retry keeps one     *)
(* counter per failure kind and gives up when any of them drops below 0.   *)
status_forcelist_wide == {404, 500, 502, 504}
status_forcelist == {500, 502, 504}
\* urllib3.util.retry.Retry.RETRY_AFTER_STATUS_CODES, honoured because
\* respect_retry_after_header is left at its default
RETRY_AFTER_STATUS_CODES == {413, 429, 503}
Statuses == {200, 404, 429, 500, 503}
Answers == [kind : {"connect", "read"}, status : {0}, retry_after : {FALSE}]
             \cup [kind : {"response"}, status : Statuses, retry_after : BOOLEAN]

\* Retry.is_retry(method, status_code, has_retry_after) for a GET
is_retry(r, a) ==
  \/ a.status \in status_forcelist
  \/ r.total # 0 /\ a.retry_after /\ a.status \in RETRY_AFTER_STATUS_CODES

\* Retry.increment
increment(r, a) ==
  [total |-> r.total - 1,
   connect |-> IF a.kind = "connect" THEN r.connect - 1 ELSE r.connect,
   read |-> IF a.kind = "read" THEN r.read - 1 ELSE r.read]

\* Retry.is_exhausted
is_exhausted(r) == r.total < 0 \/ r.connect < 0 \/ r.read < 0

\* session.get(url): a fresh Retry for the request
Start ==
  /\ rstate \in {"idle", "returned", "raised"}
  /\ rstate' = "sending"
  /\ attempt' = 0
  /\ retry' = InitRetry
  /\ rlast' = <<>>
  /\ UNCHANGED restVars /\ UNCHANGED <<pipeVars, throttleVars, tokenVars, bulkVars>>

\* one attempt of HTTPConnectionPool.urlopen and what the server does
Send(a) ==
  /\ rstate = "sending"
  /\ attempt' = attempt + 1
  /\ rlast' = Append(rlast, a)
  /\ IF a.kind = "response" /\ ~is_retry(retry, a)
       THEN rstate' = "returned" /\ retry' = retry
       ELSE /\ retry' = increment(retry, a)
            /\ rstate' = IF is_exhausted(increment(retry, a)) THEN "raised" ELSE "sending"
  /\ UNCHANGED restVars /\ UNCHANGED <<pipeVars, throttleVars, tokenVars, bulkVars>>

NextRetry ==
  \/ Start
  \/ \E a \in Answers : Send(a)

SpecRetry == Init /\ [][NextRetry]_vars

Retried == {i \in DOMAIN rlast : i < Len(rlast)}
Failure(a) == a.kind \in {"connect", "read"}

\* C9 as stated: at most 1 + 3 attempts; an attempt is followed by another
\* only after a connection or read failure or a 500, 502 or 504 response; a
\* 4xx response is never followed by another attempt.
C9_RetryOnlyFailuresAnd5xx ==
  /\ attempt <= 1 + 3
  /\ \A i \in Retried :
       /\ Failure(rlast[i]) \/ rlast[i].status \in {500, 502, 504}
       /\ ~(rlast[i].status >= 400 /\ rlast[i].status < 500)

\* C9 amended: at most 1 + 3 attempts; an attempt is followed by another
\* only after a connection or read failure, a 500, 502 or 504 response, or
\* a 413, 429 or 503 response that carries Retry-After; every other
\* response is handed back by the attempt that received it.
C9_RetryAlsoOnRetryAfter ==
  /\ attempt <= 1 + 3
  /\ \A i \in Retried :
       \/ Failure(rlast[i])
       \/ rlast[i].status \in {500, 502, 504}
       \/ rlast[i].retry_after /\ rlast[i].status \in {413, 429, 503}
  /\ (rlast # <<>> /\ rlast[Len(rlast)].kind = "response"
        /\ rlast[Len(rlast)].status \notin {500, 502, 504}
        /\ ~rlast[Len(rlast)].retry_after)
       => rstate = "returned"

\* a 429 with Retry-After was retried and the fourth attempt ended the request
C9_Witness ==
  /\ attempt = 1 + 3
  /\ \E i \in Retried : rlast[i].status = 429 /\ rlast[i].retry_after
  /\ rstate \in {"returned", "raised"}

\* ------------------------------------- bulk cache: get_data and _create_cache
(* The store is the zarr directory CACHE_FILE: "missing" while the path    *)
(* does not exist, "built" after a complete to_zarr, "partial" when        *)
(* to_zarr failed after it had created the directory.                      *)
BulkVariables == {DISCHARGE_DAILY_MEAN, Bogus}
HeaderAnswers == {"ok", "error"}
ArchiveAnswers == {"data", "empty", "error"}
ParseAnswers == {"rows", "empty"}
WriteAnswers == {"ok", "fails_before", "fails_midway"}

\* if not self.CACHE_FILE.exists(): self._create_cache()
NeedsBuildAlways(st) == TRUE
NeedsBuild(st) == st = "missing"

\* what to_zarr(CACHE_FILE, mode="w") leaves on disk
to_zarr(w) ==
  IF w = "ok" THEN "built" ELSE IF w = "fails_midway" THEN "partial" ELSE "missing"

\* _create_cache of a provider: the store it leaves, whether it raised, and
\* whether it got as far as the archive download and as the store write
create_cache(p, headers, archive, parse, write) ==
  IF p = "poland" /\ headers = "error"
    THEN [store |-> "missing", raised |-> TRUE, downloaded |-> FALSE, wrote |-> FALSE]
  ELSE IF p = "austria" /\ archive = "error"
    THEN [store |-> "missing", raised |-> TRUE, downloaded |-> TRUE, wrote |-> FALSE]
  ELSE IF archive # "data" \/ parse = "empty"
    THEN [store |-> "missing", raised |-> FALSE, downloaded |-> TRUE, wrote |-> FALSE]
  ELSE [store |-> to_zarr(write), raised |-> p = "austria" /\ write # "ok",
        downloaded |-> TRUE, wrote |-> TRUE]

\* PolandFetcher.get_data(gauge_id, ...) and AustriaFetcher.get_data("all", ...)
BulkGetData(p, variable, headers, archive, parse, write) ==
  LET supported == variable # Bogus
      build == supported /\ NeedsBuild(store[p])
      c == create_cache(p, headers, archive, parse, write)
      after == IF build THEN c.store ELSE store[p]
      kind == IF ~supported THEN "ValueError"
              ELSE IF build /\ c.raised THEN "Exception"
              ELSE IF after = "built" THEN "frame" ELSE "empty"
  IN /\ bcalls < MaxBulkCalls
     /\ bcalls' = bcalls + 1
     /\ store' = [store EXCEPT ![p] = after]
     /\ downloads' = IF build /\ c.downloaded THEN downloads + 1 ELSE downloads
     /\ builds' = IF build /\ c.wrote THEN builds + 1 ELSE builds
     /\ blast' = [provider |-> p, storeBefore |-> store[p], kind |-> kind,
                  downloaded |-> build /\ c.downloaded, wrote |-> build /\ c.wrote]
     /\ UNCHANGED restVars /\ UNCHANGED <<pipeVars, throttleVars, tokenVars, retryVars>>

NextBulk ==
  \E p \in BulkProviders, variable \in BulkVariables, headers \in HeaderAnswers,
     archive \in ArchiveAnswers, parse \in ParseAnswers, write \in WriteAnswers :
    BulkGetData(p, variable, headers, archive, parse, write)

SpecBulk == Init /\ [][NextBulk]_vars

\* C8: a get_data call downloads the archive or writes the store only when
\* the store did not exist when the call was made; a call that finds the
\* store leaves it as it is.
C8_BuildOnlyWhenStoreMissing ==
  (blast.provider # "none" /\ blast.storeBefore # "missing") =>
    /\ ~blast.downloaded /\ ~blast.wrote
    /\ store[blast.provider] = blast.storeBefore

\* a second call was served from the store the first call built
C8_Witness ==
  /\ bcalls >= 2 /\ downloads = 1 /\ builds = 1
  /\ blast.storeBefore = "built" /\ blast.kind = "frame"

\* ---------------------------------------------------- dates of a get_data call
\* C11: an omitted start date becomes 1900-01-01 (day 0), an omitted end
\* date becomes today (day MaxDay), a well-formed date is used as given,
\* and a date that is not YYYY-MM-DD makes the call raise ValueError
\* without a request having been sent.
C11_DatesDefaultedOrRejected ==
  (constructed = "ok" /\ call.variable # "none") =>
    /\ BadDate \in {call.start, call.end}
         => (response.kind = "ValueError" /\ ~response.requested)
    /\ call.start = NoDate => CalledStart = 0
    /\ call.end = NoDate => CalledEnd = MaxDay
    /\ call.start \in Days => CalledStart = call.start
    /\ call.end \in Days => CalledEnd = call.end

\* -------------------------------------------------- scripts/download_all.py
(* main() builds one task per (country, gauge) of the selected fetchers,   *)
(* shuffles them and hands them to a ThreadPoolExecutor; every worker      *)
(* thread runs download_gauge_data for one task at a time.                 *)
MaxWorkers == 2
MaxTasks == 3
PoolCountries == {"sweden", "france"}
PoolGauges == {"a/b", "a_b", "c"}
PoolVariables == {DISCHARGE_DAILY_MEAN, Bogus}
PoolTasks == [country : PoolCountries, gauge : PoolGauges]
GetDataResults == {"data", "empty", "raise"}

\* "".join(c if c.isalnum() or c in ["-", "_"] else "_" for c in gauge_id)
sanitize(g) == IF g = "a/b" THEN "a_b" ELSE g

\* os.path.join(ROOT_DIR, country, f"{sanitized_gauge_id}_{variable}.csv")
output_file(t, variable) ==
  [country |-> t.country, name |-> sanitize(t.gauge), variable |-> variable]

\* ThreadPoolExecutor(max_workers=n): a queued task starts only on a free worker
FreeWorkerAlways(running, n) == TRUE
FreeWorker(running, n) == Cardinality(running) < n

Running(phase) == {r \in pool.running : r.phase = phase}

\* main(): parse the arguments, build the tasks and submit them all
Main(n, variable, T) ==
  /\ pool.state = "idle"
  /\ pool' = [pool EXCEPT !.state = "running", !.n_workers = n, !.variable = variable,
                          !.pending = T, !.running = {}, !.finished = {},
                          !.calls = [t \in T |-> 0]]
  /\ UNCHANGED <<baseVars, rep, meta, walk, thr>>

\* a worker thread takes the next queued task and enters download_gauge_data
Take(t) ==
  /\ pool.state = "running"
  /\ t \in pool.pending
  /\ FreeWorker(pool.running, pool.n_workers)
  /\ pool' = [pool EXCEPT !.pending = @ \ {t},
                          !.running = @ \cup {[task |-> t, phase |-> "started"]}]
  /\ UNCHANGED <<baseVars, rep, meta, walk, thr>>

\* download_gauge_data up to the get_data call: skip an existing output
\* file, refuse an unsupported variable, else call get_data
Check(t) ==
  LET r == [task |-> t, phase |-> "started"]
      done(res) == [pool EXCEPT !.running = @ \ {r},
                                !.finished = @ \cup {[task |-> t, result |-> res]}]
  IN /\ r \in pool.running
     /\ pool' = IF output_file(t, pool.variable) \in pool.files THEN done("SKIPPED")
                ELSE IF pool.variable \notin AdapterOf(t.country).vars
                  THEN done("UNSUPPORTED VARIABLE")
                ELSE [pool EXCEPT !.running = (@ \ {r}) \cup {[task |-> t, phase |-> "get_data"]},
                                  !.calls[t] = @ + 1]
     /\ UNCHANGED <<baseVars, rep, meta, walk, thr>>

\* get_data returns or raises; a non-empty frame is written with to_csv
Return(t, res) ==
  LET r == [task |-> t, phase |-> "get_data"]
  IN /\ r \in pool.running
     /\ pool' = [pool EXCEPT
                   !.running = @ \ {r},
                   !.finished = @ \cup {[task |-> t,
                                         result |-> CASE res = "data" -> "SUCCESS"
                                                      [] res = "empty" -> "NO DATA"
                                                      [] OTHER -> "FAILED"]},
                   !.files = IF res = "data" THEN @ \cup {output_file(t, pool.variable)}
                             ELSE @]
     /\ UNCHANGED <<baseVars, rep, meta, walk, thr>>

\* every future has completed; the executor shuts down and main returns
Finished ==
  /\ pool.state = "running"
  /\ pool.pending = {} /\ pool.running = {}
  /\ pool' = [pool EXCEPT !.state = "idle"]
  /\ UNCHANGED <<baseVars, rep, meta, walk, thr>>

NextPool ==
  \/ /\ pool.state = "idle"
     /\ \E n \in 1..MaxWorkers, variable \in PoolVariables, T \in SUBSET PoolTasks :
          /\ T # {} /\ Cardinality(T) <= MaxTasks
          /\ Main(n, variable, T)
  \/ \E t \in PoolTasks : Take(t)
  \/ \E t \in PoolTasks : Check(t)
  \/ \E t \in PoolTasks, res \in GetDataResults : Return(t, res)
  \/ Finished

SpecPool == Init /\ [][NextPool]_vars

\* C12: never more than n_workers tasks, hence get_data calls, in progress,
\* and no task calls get_data more than once.
C12_AtMostNWorkersInProgress ==
  /\ Cardinality(pool.running) <= pool.n_workers
  /\ Cardinality(Running("get_data")) <= pool.n_workers
  /\ \A t \in DOMAIN pool.calls : pool.calls[t] <= 1

\* both workers are inside get_data while a third task waits in the queue
C12_Witness ==
  /\ pool.n_workers = 2
  /\ Cardinality(Running("get_data")) = 2
  /\ pool.pending # {}

\* ------------------------------------- get_data repeated on a stateful adapter
(* The provider, and the disk the bulk store is written to, answer the     *)
(* same way whenever they are asked: the fixture.  What varies between two *)
(* calls is the state the adapter kept: the bulk store, the cached token   *)
(* and the rate-limit window.                                              *)
MaxRepeats == 3
\* what the provider holds: nothing, or a record on the first and on the last day
RepeatPayloads ==
  {<<>>, <<[t |-> 0, v |-> 1000], [t |-> Midnight(MaxDay), v |-> 3000]>>}
Fixtures ==
  [set : {TRUE}, headers : HeaderAnswers, archive : ArchiveAnswers, parse : ParseAnswers,
   write : WriteAnswers, auth : AuthAnswers, data : RepeatPayloads]

SetFixture(f) ==
  /\ ~rep.fixture.set
  /\ rep' = [rep EXCEPT !.fixture = f]
  /\ UNCHANGED <<baseVars, pool, meta, walk, thr>>

\* the frame get_data cuts out of what the provider holds
Series(A, start) ==
  Clip(_parse_data(A, DISCHARGE_DAILY_MEAN, rep.fixture.data), "closed",
       format_start_date(start), format_end_date(NoDate))

Seen(p, start, result) ==
  [rep EXCEPT !.n = @ + 1, !.seen[<<p, start>>] = @ \cup {result}]

\* PolandFetcher.get_data / AustriaFetcher.get_data("all", ...)
RepeatBulk(p, start) ==
  LET fx == rep.fixture
      build == NeedsBuild(store[p])
      c == create_cache(p, fx.headers, fx.archive, fx.parse, fx.write)
      after == IF build THEN c.store ELSE store[p]
      result == IF build /\ c.raised THEN Raise("Exception", TRUE)
                ELSE IF after = "built" THEN Frame(Series(AustriaFetcher, start), build)
                ELSE Frame(<<>>, build)
  IN /\ fx.set /\ rep.n < MaxRepeats /\ p \in BulkProviders
     /\ store' = [store EXCEPT ![p] = after]
     /\ rep' = Seen(p, start, [kind |-> result.kind, rows |-> result.rows])
     /\ UNCHANGED <<pipeVars, throttleVars, tokenVars, retryVars, pool, meta, walk, thr,
                    builds, downloads, bcalls, blast>>

\* BrazilFetcher.get_data with credentials: the walk keeps what it fetched
\* while _get_token hands out a token
RepeatBrazil(start) ==
  LET fx == rep.fixture
      cached == TokenValid(token, token_expiry, tclock)
      success == ~cached /\ fx.auth = "ok"
      tok == IF cached THEN token ELSE IF success THEN 1 ELSE 0
      rows == IF tok # 0 THEN Series(BrazilFetcher, start) ELSE <<>>
  IN /\ fx.set /\ rep.n < MaxRepeats
     /\ token' = IF success THEN 1 ELSE token
     /\ token_expiry' = IF success THEN tclock + TokenLifetime ELSE token_expiry
     /\ rep' = Seen("brazil", start, [kind |-> "frame", rows |-> rows])
     /\ UNCHANGED <<pipeVars, throttleVars, retryVars, bulkVars, pool, meta, walk, thr,
                    tclock, tlast>>

\* LithuaniaFetcher.get_data: one throttled request, then parse and filter
RepeatLithuania(start) ==
  LET fx == rep.fixture
      q1 == Evict(request_times, clock)
      full == Len(q1) >= Cap
      now2 == IF full THEN clock + WaitTime(q1, clock) ELSE clock
      q2 == IF full THEN Evict(q1, now2) ELSE q1
  IN /\ fx.set /\ rep.n < MaxRepeats /\ now2 <= MaxClock
     /\ request_times' = DequeAppend(q2, now2)
     /\ clock' = now2
     /\ rep' = Seen("lithuania", start,
                    [kind |-> "frame", rows |-> Series(LithuaniaFetcher, start)])
     /\ UNCHANGED <<pipeVars, tokenVars, retryVars, bulkVars, pool, meta, walk, thr,
                    recorded>>

NextRepeat ==
  \/ /\ ~rep.fixture.set
     /\ \E f \in Fixtures : SetFixture(f)
  \/ /\ rep.fixture.set
     /\ \/ \E p \in BulkProviders, start \in {NoDate, MaxDay} : RepeatBulk(p, start)
        \/ \E start \in {NoDate, MaxDay} : RepeatBrazil(start)
        \/ \E start \in {NoDate, MaxDay} : RepeatLithuania(start)
        \/ \E d \in TokenElapsed : TokenElapse(d)

SpecRepeat == Init /\ [][NextRepeat]_vars

\* C13: whatever state earlier calls left in the adapter, calls with the
\* same arguments against the same provider behaviour give one and the same
\* outcome.
C13_SameArgumentsSameSeries ==
  \A k \in RepeatKeys : Cardinality(rep.seen[k]) <= 1

\* ------------------------------------------------ shape of the returned table
\* columns a parser adds next to the variable: SwedenFetcher keeps "quality"
ExtraColumns(A) == IF A.name = "sweden" THEN <<"quality">> ELSE <<>>

\* pd.DataFrame(columns=[constants.TIME_INDEX, variable, ...]): no rows, a
\* default integer index, time left as a column
EmptyTable(A, variable) ==
  [index |-> "range", columns |-> <<"time", variable>> \o ExtraColumns(A)]

\* df[[TIME_INDEX, variable, ...]].set_index(TIME_INDEX)
IndexedTable(A, variable) ==
  [index |-> "time", columns |-> <<variable>> \o ExtraColumns(A)]

\* the table a get_data call that did not raise hands back
Shape(A, key, variable, outcome, raw) ==
  IF A.credGate # "none" /\ ~key THEN EmptyTable(A, variable)
  ELSE IF outcome # "ok" THEN EmptyTable(A, variable)
  ELSE IF _parse_data(A, variable, raw) = <<>> THEN EmptyTable(A, variable)
  ELSE IndexedTable(A, variable)

Returned == constructed = "ok" /\ response.kind = "frame"

\* C14: every table get_data returns, the empty one included, is indexed
\* by time and has exactly one column, named after the requested variable.
C14_TimeIndexedSingleColumn ==
  Returned =>
    Shape(AdapterOf(fetcher), hasKey, call.variable, call.outcome, call.raw)
      = [index |-> "time", columns |-> <<call.variable>>]

\* ------------------------------------------------------------ site metadata
(* The site file of a provider is cached_site_data/<country>_sites.csv.    *)
(* Its content is Bundled as shipped, or the number of the live catalog    *)
(* version that was written over it.                                       *)
MaxMetaCalls == 5
LiveCatalogs == {1, 2}

\* get_cached_metadata(): read the site file
GetCachedMetadata(p) ==
  /\ meta.n < MaxMetaCalls
  /\ meta' = [meta EXCEPT !.n = @ + 1,
                          !.last = [provider |-> p, call |-> "get_cached_metadata",
                                    before |-> meta.file[p], result |-> "file"]]
  /\ UNCHANGED <<baseVars, pool, rep, walk, thr>>

\* AustriaFetcher.get_metadata: df.to_csv(METADATA_CSV) after a download
WritesSiteFileNever(p) == FALSE
WritesSiteFile(p) == p = "austria"

\* get_metadata(): the live catalog (version live, reachable when up);
\* AustriaFetcher answers from the site file unless force_download, and
\* stores what it downloaded in its place
GetMetadata(p, force_download, up, live) ==
  LET fromFile == p = "austria" /\ ~force_download
      fetched == ~fromFile /\ up
  IN /\ meta.n < MaxMetaCalls
     /\ meta' = [meta EXCEPT
                   !.n = @ + 1,
                   !.file[p] = IF fetched /\ WritesSiteFile(p) THEN live ELSE @,
                   !.last = [provider |-> p, call |-> "get_metadata",
                             before |-> meta.file[p],
                             result |-> IF fromFile THEN "file"
                                        ELSE IF fetched THEN "live"
                                        ELSE IF p = "austria" THEN "raised" ELSE "empty"]]
     /\ UNCHANGED <<baseVars, pool, rep, walk, thr>>

NextMeta ==
  \/ \E p \in MetaProviders : GetCachedMetadata(p)
  \/ \E p \in MetaProviders, force_download \in BOOLEAN, up \in BOOLEAN,
        live \in LiveCatalogs :
       /\ (force_download => p = "austria")
       /\ GetMetadata(p, force_download, up, live)

SpecMeta == Init /\ [][NextMeta]_vars

\* C15: no metadata call changes the bundled site file.
C15_SiteFileReadOnly ==
  \A p \in MetaProviders : meta.file[p] = Bundled

\* ------------------------------------------------- walks over date sub-ranges
(* Days of a walk are numbered from 0.  The calendar is scaled down: a     *)
(* month has MonthLen days and a year YearLen days, so that a few days     *)
(* span several months and years; relativedelta(years=n) is n * YearLen    *)
(* days.  The 20-year window of the South African daily series is scaled   *)
(* to DailyChunkYears years.                                               *)
MaxWalkDay == 7
MonthLen == 2
YearLen == 4
DailyChunkYears == 2
WalkDays == 0..MaxWalkDay
MaxChunks == MaxWalkDay \div MonthLen + 1

Min(a, b) == IF a < b THEN a ELSE b
Max(a, b) == IF a > b THEN a ELSE b
YearOf(d) == d \div YearLen
YearStart(y) == y * YearLen
YearEnd(y) == y * YearLen + YearLen - 1
MonthOf(d) == d \div MonthLen
MonthStart(m) == m * MonthLen
MonthEnd(m) == m * MonthLen + MonthLen - 1
Range(lo, hi) == [lo |-> lo, hi |-> hi]

\* SouthAfricaFetcher._download_data: chunk_years by variable
chunk_years(variable) ==
  IF variable \in {STAGE_INSTANT, DISCHARGE_INSTANT} THEN 1 ELSE DailyChunkYears

\* SouthAfricaFetcher._download_data: forward windows of chunk_years years
RECURSIVE SouthAfricaChunks(_, _, _)
SouthAfricaChunks(current_start, end, years) ==
  IF current_start > end THEN <<>>
  ELSE LET chunk_end == Min(current_start + years * YearLen - 1, end)
       IN <<Range(current_start, chunk_end)>>
            \o SouthAfricaChunks(chunk_end + 1, end, years)

\* BrazilFetcher._download_data: windows of one year, walked back from the end
RECURSIVE BrazilChunks(_, _)
BrazilChunks(current, start) ==
  IF current < start THEN <<>>
  ELSE LET chunk_start == Max(current - YearLen + 1, start)
       IN <<Range(chunk_start, current)>> \o BrazilChunks(chunk_start - 1, start)

\* for year in range(start_dt.year, end_dt.year + 1)
RECURSIVE Years(_, _)
Years(y, last) == IF y > last THEN <<>> ELSE <<y>> \o Years(y + 1, last)

\* SouthKoreaFetcher._download_data: the part of each calendar year in range
SouthKoreaChunks(start, end) ==
  LET ys == Years(YearOf(start), YearOf(end))
  IN [i \in DOMAIN ys |-> Range(Max(start, YearStart(ys[i])), Min(end, YearEnd(ys[i])))]

\* CzechFetcher._download_data: the yearly file of each calendar year in range
CzechChunks(start, end) ==
  LET ys == Years(YearOf(start), YearOf(end))
  IN [i \in DOMAIN ys |-> Range(YearStart(ys[i]), YearEnd(ys[i]))]

\* pd.date_range(start=start_date, end=end_date, freq="MS"): the first days
\* of month that lie in [start, end]
RECURSIVE MonthStarts(_, _)
MonthStarts(d, end) ==
  IF d > end THEN <<>>
  ELSE IF d = MonthStart(MonthOf(d)) THEN <<d>> \o MonthStarts(d + MonthLen, end)
  ELSE MonthStarts(MonthStart(MonthOf(d) + 1), end)

\* LithuaniaFetcher._download_data: one request per month start of the range
LithuaniaChunks(start, end) ==
  LET ms == MonthStarts(start, end)
  IN [i \in DOMAIN ms |-> Range(ms[i], MonthEnd(MonthOf(ms[i])))]

(* A walk is followed as the list of requests it sent (station metadata    *)
(* and data sub-ranges, each with or without a token in its header) and    *)
(* the sub-ranges whose payload reached all_data.  outcomes[i] is what     *)
(* happens to the i-th data request: "ok", "net" (the request fails) or    *)
(* "malformed" (the answer cannot be processed).                           *)
WalkAdapters == {"southafrica", "southkorea", "czech", "lithuania"}
ChunkOutcomes == {"ok", "net", "malformed"}
MaxYearChunks == MaxWalkDay \div YearLen + 1
WalkVariables(a) ==
  IF a = "southafrica" THEN {DISCHARGE_DAILY_MEAN, STAGE_INSTANT} ELSE {DISCHARGE_DAILY_MEAN}

DataRequest(r, tok) == [kind |-> "data", lo |-> r.lo, hi |-> r.hi, token |-> tok]
NoRange == Range(1, 0)

\* the except clauses of a sub-range end its iteration, not the loop
ContinueAfterOk(outcome) == outcome = "ok"
ContinueAfter(outcome) == TRUE

\* the loop over the planned sub-ranges, from the i-th on
RECURSIVE Loop(_, _, _)
Loop(planned, outcomes, i) ==
  IF i > Len(planned) THEN [requests |-> <<>>, kept |-> <<>>]
  ELSE LET rest == IF ContinueAfter(outcomes[i]) THEN Loop(planned, outcomes, i + 1)
                   ELSE [requests |-> <<>>, kept |-> <<>>]
       IN [requests |-> <<DataRequest(planned[i], TRUE)>> \o rest.requests,
           kept |-> (IF outcomes[i] = "ok" THEN <<planned[i]>> ELSE <<>>) \o rest.kept]

Planned(a, variable, start, end) ==
  CASE a = "southafrica" -> SouthAfricaChunks(start, end, chunk_years(variable))
    [] a = "southkorea" -> SouthKoreaChunks(start, end)
    [] a = "czech" -> CzechChunks(start, end)
    [] OTHER -> LithuaniaChunks(start, end)

\* _download_data of SouthAfricaFetcher, SouthKoreaFetcher, CzechFetcher
\* and LithuaniaFetcher
DownloadWalk(a, variable, start, end, outcomes) ==
  LET planned == Planned(a, variable, start, end)
      l == Loop(planned, outcomes, 1)
  IN /\ walk = NoWalk
     /\ walk' = [adapter |-> a, variable |-> variable, start |-> start, end |-> end,
                 ran |-> TRUE, clip |-> Range(start, end), planned |-> planned,
                 outcomes |-> outcomes, tokens |-> <<>>,
                 requests |-> l.requests, kept |-> l.kept,
                 tokenCalls |-> 0, raised |-> FALSE, escaped |-> FALSE]
     /\ UNCHANGED <<baseVars, pool, rep, meta, thr>>

\* the while loop of BrazilFetcher._download_data after k sub-ranges;
\* tokens[j] tells whether the j-th _get_token call of the walk returns a token
RECURSIVE BrazilLoop(_, _, _, _, _)
BrazilLoop(current, start, tokens, outcomes, k) ==
  IF current < start THEN [requests |-> <<>>, kept |-> <<>>, tokenCalls |-> 0]
  ELSE IF ~tokens[k + 2] THEN [requests |-> <<>>, kept |-> <<>>, tokenCalls |-> 1]
  ELSE LET chunk == Range(Max(current - YearLen + 1, start), current)
           rest == IF ContinueAfter(outcomes[k + 1])
                     THEN BrazilLoop(chunk.lo - 1, start, tokens, outcomes, k + 1)
                     ELSE [requests |-> <<>>, kept |-> <<>>, tokenCalls |-> 0]
       IN [requests |-> <<DataRequest(chunk, TRUE)>> \o rest.requests,
           kept |-> (IF outcomes[k + 1] = "ok" THEN <<chunk>> ELSE <<>>) \o rest.kept,
           tokenCalls |-> 1 + rest.tokenCalls]

\* BrazilFetcher.get_data with credentials: _get_station_metadata, the
\* choice of the column, the clip to the record extent and the walk; an
\* exception of _download_data is caught by get_data
BrazilWalk(variable, start, end, has, record, metaOutcome, tokens, outcomes) ==
  LET metaRequest == [kind |-> "metadata", lo |-> 0, hi |-> 0, token |-> tokens[1]]
      has_discharge == has[1]
      has_stage == has[2]
      has_variable == IF variable = "discharge" THEN has_discharge ELSE has_stage
      start1 == Max(start, record.lo)
      end1 == Min(end, record.hi)
      empty == end <= record.hi /\ end < start1
      reached == metaOutcome = "ok" /\ has_variable
      unbound == reached /\ variable = "stage"
      walked == reached /\ ~unbound /\ ~empty
      l == IF walked THEN BrazilLoop(end1, start1, tokens, outcomes, 0)
           ELSE [requests |-> <<>>, kept |-> <<>>, tokenCalls |-> 0]
  IN /\ walk = NoWalk
     /\ walk' = [adapter |-> "brazil", variable |-> variable, start |-> start, end |-> end,
                 ran |-> reached, metadata |-> metaOutcome, has |-> has_variable,
                 record |-> record,
                 clip |-> IF reached THEN Range(start1, end1) ELSE NoRange,
                 planned |-> IF reached THEN BrazilChunks(end1, start1) ELSE <<>>,
                 outcomes |-> outcomes, tokens |-> tokens,
                 requests |-> <<metaRequest>> \o l.requests, kept |-> l.kept,
                 tokenCalls |-> 1 + l.tokenCalls,
                 raised |-> metaOutcome # "ok" \/ unbound, escaped |-> FALSE]
     /\ UNCHANGED <<baseVars, pool, rep, meta, thr>>

\* the caller takes what the walk collected
TakeWalk ==
  /\ walk # NoWalk
  /\ walk' = NoWalk
  /\ UNCHANGED <<baseVars, pool, rep, meta, thr>>

RecordExtents == {Range(0, MaxWalkDay), Range(2, 5)}

NextWalk ==
  \/ TakeWalk
  \/ /\ walk = NoWalk
     /\ \E a \in WalkAdapters, start \in WalkDays, end \in WalkDays,
           outcomes \in [1..MaxChunks -> ChunkOutcomes] :
          \E variable \in WalkVariables(a) : DownloadWalk(a, variable, start, end, outcomes)
  \/ /\ walk = NoWalk
     /\ \E variable \in {"discharge", "stage"}, start \in WalkDays, end \in WalkDays,
           has \in BOOLEAN \X BOOLEAN, record \in RecordExtents,
           metaOutcome \in {"ok", "error"}, tokens \in [1..(MaxYearChunks + 1) -> BOOLEAN],
           outcomes \in [1..MaxYearChunks -> ChunkOutcomes] :
          BrazilWalk(variable, start, end, has, record, metaOutcome, tokens, outcomes)

SpecWalk == Init /\ [][NextWalk]_vars

DataRequests == {i \in DOMAIN walk.requests : walk.requests[i].kind = "data"}
DaysOf(r) == {d \in 0..(MaxWalkDay + YearLen) : r.lo <= d /\ d <= r.hi}
MaxWindow == IF walk.adapter = "southafrica" THEN chunk_years(walk.variable) * YearLen
             ELSE YearLen
\* every _get_token call of the walk returned a token
TokensPresent == \A j \in 1..walk.tokenCalls : walk.tokens[j]

\* C16: the sub-ranges a walk requests are pairwise disjoint, cover
\* exactly the requested interval (clipped to the record extent) and none
\* exceeds the provider's window.
C16_SubRangesTileInterval ==
  (/\ walk # NoWalk /\ walk.adapter \in {"southafrica", "southkorea", "brazil"}
   /\ walk.start <= walk.end
   /\ walk.adapter = "brazil" => (walk.ran /\ TokensPresent))
    => /\ \A i \in DataRequests : \A j \in DataRequests :
            i # j => DaysOf(walk.requests[i]) \cap DaysOf(walk.requests[j]) = {}
       /\ UNION {DaysOf(walk.requests[i]) : i \in DataRequests} = DaysOf(walk.clip)
       /\ \A i \in DataRequests :
            /\ walk.requests[i].lo <= walk.requests[i].hi
            /\ walk.requests[i].hi - walk.requests[i].lo + 1 <= MaxWindow

(* ---------------------------------------------------------------------- *)
(* The paginated readings walk of the UK adapters.  A reading is a stamp: *)
(* slot t % SlotsPerDay of day t \div SlotsPerDay.  The 15-minute series  *)
(* has SlotsPerDay readings a day, the daily series one.  The service     *)
(* answers a query with the first `limit` readings of the date interval,  *)
(* oldest first; the API limit of 2000000 items is scaled to `limit`.     *)
(* ---------------------------------------------------------------------- *)
MaxPageDay == 3
SlotsPerDay == 2
limit == 3
PageDays == 0..MaxPageDay
PageStamps == 0..(SlotsPerDay * (MaxPageDay + 1) - 1)
PageAdapters == {"uk_ea", "uk"}
PageVariables(a) ==
  IF a = "uk_ea" THEN {STAGE_INSTANT, DISCHARGE_DAILY_MEAN} ELSE {"stage", "discharge"}
\* level-i-900 is the 15-minute series, flow-m-86400 the daily one
Instant(variable) == variable \in {STAGE_INSTANT, "stage"}
DateOf(t) == t \div SlotsPerDay
Stores(variable) ==
  IF Instant(variable) THEN SUBSET PageStamps
  ELSE SUBSET {t \in PageStamps : t % SlotsPerDay = 0}

RECURSIVE Sorted(_)
Sorted(S) ==
  IF S = {} THEN <<>>
  ELSE LET m == CHOOSE x \in S : \A y \in S : x <= y
       IN <<m>> \o Sorted(S \ {m})

\* the readings with mineq-date <= date <= maxeq-date, oldest first
Matching(series, from, end) ==
  Sorted({t \in series : from <= DateOf(t) /\ DateOf(t) <= end})
\* the service's answer to one readings request with _limit=n
Page(series, from, end, n) ==
  LET all == Matching(series, from, end)
  IN IF Len(all) <= n THEN all ELSE SubSeq(all, 1, n)

\* the while True loop of _download_data from its k-th request on; the
\* failAt-th request fails and the exception is raised again
RECURSIVE ReadingsLoop(_, _, _, _, _)
ReadingsLoop(series, current_start_date, end_date, failAt, k) ==
  IF k = failAt THEN [items |-> <<>>, raised |-> TRUE, pages |-> 1]
  ELSE LET items == Page(series, current_start_date, end_date, limit)
       IN IF Len(items) < limit THEN [items |-> items, raised |-> FALSE, pages |-> 1]
          ELSE LET next == DateOf(items[Len(items)]) + 1
               IN IF next > end_date THEN [items |-> items, raised |-> FALSE, pages |-> 1]
                  ELSE LET rest == ReadingsLoop(series, next, end_date, failAt, k + 1)
                       IN [items |-> items \o rest.items, raised |-> rest.raised,
                           pages |-> 1 + rest.pages]

\* UKEAFetcher._download_data and UKFetcher._download_data: the measure
\* lookup, then the pages
ReadingsWalk(a, variable, start, end, measures, series, failAt) ==
  LET l == IF measures = "ok" THEN ReadingsLoop(series, start, end, failAt, 1)
           ELSE [items |-> <<>>, raised |-> TRUE, pages |-> 0]
  IN /\ walk = NoWalk
     /\ walk' = [adapter |-> a, variable |-> variable, start |-> start, end |-> end,
                 series |-> series, items |-> l.items, pages |-> l.pages,
                 raised |-> l.raised,
                 single |-> Matching(series, start, end)]
     /\ UNCHANGED <<baseVars, pool, rep, meta, thr>>

\* the caller takes the items
TakeItems ==
  /\ walk # NoWalk
  /\ walk' = NoWalk
  /\ UNCHANGED <<baseVars, pool, rep, meta, thr>>

NextPages ==
  \/ TakeItems
  \/ /\ walk = NoWalk
     /\ \E a \in PageAdapters, start \in PageDays, end \in PageDays,
           measures \in {"ok", "absent", "net"}, failAt \in 0..2 :
          \E variable \in PageVariables(a) : \E series \in Stores(variable) :
            ReadingsWalk(a, variable, start, end, measures, series, failAt)

SpecPages == Init /\ [][NextPages]_vars

\* C17: when the UK readings walk finishes, the concatenated pages are
\* the readings of [start, end] as one unlimited request returns them:
\* none missing, none twice.
C17_PagesEqualSingleRequest ==
  (walk # NoWalk /\ walk.adapter \in PageAdapters /\ ~walk.raised
     /\ walk.start <= walk.end)
    => walk.items = walk.single

\* the data requests of the walk, in the order sent
IsData(r) == r.kind = "data"
Sent == SelectSeq(walk.requests, IsData)
\* the planned sub-ranges, from the i-th on, whose request is answered well
RECURSIVE Fetched(_, _, _)
Fetched(planned, outcomes, i) ==
  IF i > Len(planned) THEN <<>>
  ELSE (IF outcomes[i] = "ok" THEN <<planned[i]>> ELSE <<>>)
         \o Fetched(planned, outcomes, i + 1)
KeepsGoing == {"southafrica", "czech", "lithuania", "brazil"}
\* the walk was entered and never lacked a token
Walked ==
  /\ walk # NoWalk
  /\ walk.adapter \in KeepsGoing
  /\ walk.adapter = "brazil" => (walk.ran /\ ~walk.raised /\ TokensPresent)

\* C18: in the year, window and month walks a failed or malformed
\* sub-range does not stop the walk: every planned sub-range is requested
\* and the data handed on are the payloads of the sub-ranges that were
\* fetched well.
C18_FailedSubRangeDoesNotStopWalk ==
  Walked =>
    /\ Sent = [i \in DOMAIN walk.planned |-> DataRequest(walk.planned[i], TRUE)]
    /\ walk.kept = Fetched(walk.planned, walk.outcomes, 1)
\* a walk whose first sub-range failed and whose later one was fetched
C18_Witness ==
  /\ Walked
  /\ Len(walk.planned) >= 2
  /\ walk.outcomes[1] # "ok"
  /\ walk.outcomes[2] = "ok"
  /\ Len(Sent) = Len(walk.planned)
  /\ walk.kept # <<>>

\* C19: in a Brazilian walk no request is sent without a token, no token
\* is asked for after the getter returned none, and get_data does not
\* raise.
C19_AbsentTokenStopsWalk ==
  (walk # NoWalk /\ walk.adapter = "brazil") =>
    /\ \A i \in DOMAIN walk.requests : walk.requests[i].token
    /\ \A j \in 1..walk.tokenCalls : ~walk.tokens[j] => j = walk.tokenCalls
    /\ ~walk.escaped

\* the months that hold a day of [start, end]
MonthsOf(start, end) == {MonthOf(d) : d \in {x \in WalkDays : start <= x /\ x <= end}}
\* C20: the Lithuanian walk requests the months that hold a day of
\* [start_date, end_date], each once, in ascending order, and no other.
C20_EveryMonthOnceAscending ==
  (walk # NoWalk /\ walk.adapter = "lithuania") =>
    /\ {MonthOf(Sent[i].lo) : i \in DOMAIN Sent} = MonthsOf(walk.start, walk.end)
    /\ \A i \in DOMAIN Sent : \A j \in DOMAIN Sent :
         i < j => MonthOf(Sent[i].lo) < MonthOf(Sent[j].lo)

\* ------------------------------------------ the claims on concurrent workers
\* C30: in download_all distinct (provider, gauge) tasks of a run have
\* distinct output files, so that no two tasks inside get_data at the same
\* time are about to write the same file.
C30_DistinctTasksDistinctFiles ==
  /\ \A t1 \in DOMAIN pool.calls : \A t2 \in DOMAIN pool.calls :
       t1 # t2 => output_file(t1, pool.variable) # output_file(t2, pool.variable)
  /\ \A r1 \in Running("get_data") : \A r2 \in Running("get_data") :
       r1 # r2 => output_file(r1.task, pool.variable) # output_file(r2.task, pool.variable)

(* One LithuaniaFetcher instance is shared by the worker threads, and      *)
(* request_times is a class attribute: the threads run _throttle_requests  *)
(* against the same deque with no lock.  A thread may be preempted between *)
(* the eviction, the test of the length, the sleep and the append.         *)

\* now = time.time() and the first eviction loop
ThrottleEnter(w) ==
  /\ thr[w] = Idle
  /\ Len(recorded) < MaxCalls
  /\ request_times' = Evict(request_times, clock)
  /\ thr' = [thr EXCEPT ![w] = [pc |-> "test", now |-> clock]]
  /\ UNCHANGED <<clock, recorded, pipeVars, tokenVars, retryVars, bulkVars, pool, rep, meta, walk>>

\* if len(self.request_times) >= 180: compute wait_time and go to sleep
ThrottleTest(w) ==
  /\ thr[w].pc = "test"
  /\ thr' = [thr EXCEPT ![w] =
               IF Len(request_times) >= Cap
                 THEN [pc |-> "sleep", wake |-> thr[w].now + WaitTime(request_times, thr[w].now)]
                 ELSE [pc |-> "append"]]
  /\ UNCHANGED <<throttleVars, pipeVars, tokenVars, retryVars, bulkVars, pool, rep, meta, walk>>

\* time.sleep(wait_time) returns; now = time.time() and the second eviction loop
ThrottleWake(w) ==
  LET now == Max(clock, thr[w].wake)
  IN /\ thr[w].pc = "sleep"
     /\ now <= MaxClock
     /\ clock' = now
     /\ request_times' = Evict(request_times, now)
     /\ thr' = [thr EXCEPT ![w] = [pc |-> "append"]]
     /\ UNCHANGED <<recorded, pipeVars, tokenVars, retryVars, bulkVars, pool, rep, meta, walk>>

\* self.request_times.append(time.time()); the request follows
ThrottleAppend(w) ==
  /\ thr[w].pc = "append"
  /\ request_times' = DequeAppend(request_times, clock)
  /\ recorded' = Append(recorded, clock)
  /\ thr' = [thr EXCEPT ![w] = Idle]
  /\ UNCHANGED <<clock, pipeVars, tokenVars, retryVars, bulkVars, pool, rep, meta, walk>>

NextSharedThrottle ==
  \/ \E d \in Elapsed : Elapse(d)
  \/ \E w \in Threads : ThrottleEnter(w)
  \/ \E w \in Threads : ThrottleTest(w)
  \/ \E w \in Threads : ThrottleWake(w)
  \/ \E w \in Threads : ThrottleAppend(w)

SpecSharedThrottle == Init /\ [][NextSharedThrottle]_vars

\* the recorded timestamps not older than the window
IsYoung(t) == clock - t <= Window
Young == SelectSeq(recorded, IsYoung)

\* C21: with several threads in _throttle_requests at once, no window of
\* 60 s holds more than Cap recorded requests, and every recorded timestamp
\* not older than 60 s is still in request_times.
C21_SharedWindowAsIfLocked ==
  /\ \A k \in DOMAIN recorded :
       k + Cap \in DOMAIN recorded => recorded[k + Cap] >= recorded[k] + Window
  /\ Len(Young) <= Len(request_times)
  /\ SubSeq(request_times, Len(request_times) - Len(Young) + 1, Len(request_times)) = Young

\* C27: after any build attempt the store path exists only if the whole
\* dataset was written: no partial store is left for a later call to accept.
C27_NoPartialStore ==
  \A p \in BulkProviders : store[p] \in {"missing", "built"}

(* The PolandFetcher instance, and with it CACHE_FILE, is shared by the    *)
(* worker threads; get_data takes no lock around the test of the path,     *)
(* the build and the opening of the store.                                 *)

\* get_data up to `if not self.CACHE_FILE.exists()`: build or go on to open
BulkEnter(w) ==
  /\ thr[w] = Idle
  /\ bcalls < MaxBulkCalls
  /\ bcalls' = bcalls + 1
  /\ thr' = [thr EXCEPT ![w] = IF NeedsBuild(store["poland"]) THEN [pc |-> "download"]
                               ELSE [pc |-> "open"]]
  /\ UNCHANGED <<store, builds, downloads, blast, pipeVars, throttleVars, tokenVars, retryVars,
                 pool, rep, meta, walk>>

\* _create_cache: download and parse; with rows, to_zarr begins to write
\* and the path exists from now on; without, get_data tests the path again
BulkDownload(w, parse) ==
  /\ thr[w].pc = "download"
  /\ downloads' = downloads + 1
  /\ IF parse = "rows"
       THEN /\ store' = [store EXCEPT !["poland"] = "partial"]
            /\ thr' = [thr EXCEPT ![w] = [pc |-> "to_zarr"]]
       ELSE /\ store' = store
            /\ thr' = [thr EXCEPT ![w] = IF store["poland"] = "missing" THEN Idle
                                         ELSE [pc |-> "open"]]
  /\ UNCHANGED <<builds, bcalls, blast, pipeVars, throttleVars, tokenVars, retryVars,
                 pool, rep, meta, walk>>

\* to_zarr has written everything; get_data finds the path and goes on to open
BulkWritten(w) ==
  /\ thr[w].pc = "to_zarr"
  /\ store' = [store EXCEPT !["poland"] = "built"]
  /\ builds' = builds + 1
  /\ thr' = [thr EXCEPT ![w] = [pc |-> "open"]]
  /\ UNCHANGED <<downloads, bcalls, blast, pipeVars, throttleVars, tokenVars, retryVars,
                 pool, rep, meta, walk>>

\* xr.open_zarr(self.CACHE_FILE): the thread reads the store as it is now
BulkOpen(w) ==
  /\ thr[w].pc = "open"
  /\ thr' = [thr EXCEPT ![w] = [pc |-> "opened", saw |-> store["poland"]]]
  /\ UNCHANGED <<bulkVars, pipeVars, throttleVars, tokenVars, retryVars, pool, rep, meta, walk>>

\* get_data returns
BulkReturn(w) ==
  /\ thr[w].pc = "opened"
  /\ thr' = [thr EXCEPT ![w] = Idle]
  /\ UNCHANGED <<bulkVars, pipeVars, throttleVars, tokenVars, retryVars, pool, rep, meta, walk>>

NextSharedBulk ==
  \/ \E w \in Threads : BulkEnter(w)
  \/ \E w \in Threads, parse \in ParseAnswers : BulkDownload(w, parse)
  \/ \E w \in Threads : BulkWritten(w)
  \/ \E w \in Threads : BulkOpen(w)
  \/ \E w \in Threads : BulkReturn(w)

SpecSharedBulk == Init /\ [][NextSharedBulk]_vars

\* C22: with several threads in get_data of a bulk provider, at most one
\* thread is inside _create_cache at a time, and a thread that opens the
\* store finds it completely written.
C22_SingleWriterNoReadDuringBuild ==
  /\ Cardinality({w \in Threads : thr[w].pc \in {"download", "to_zarr"}}) <= 1
  /\ \A w \in Threads : thr[w].pc = "opened" => thr[w].saw = "built"

(* One BrazilFetcher instance shared by the worker threads: _get_token     *)
(* reads and writes self._token and self._token_expiry with no lock, and   *)
(* a thread may be preempted between its test of the cache and the end of  *)
(* its exchange.                                                           *)

\* the test of the cache fails: not (self._token and time.time() < self._token_expiry)
StaleAlways(tok, expiry, now) == TRUE
Stale(tok, expiry, now) == ~TokenValid(tok, expiry, now)

\* _get_token up to the test of the cache; the thread remembers whether it
\* saw no token and whether it saw the expiry time passed
TokenCheck(w) ==
  LET seen == [absent |-> token = 0, expired |-> tclock >= token_expiry]
  IN /\ thr[w] = Idle
     /\ tlast.n < MaxTokenCalls
     /\ tlast' = [tlast EXCEPT !.n = @ + 1]
     /\ thr' = [thr EXCEPT ![w] =
                  IF hasKey /\ Stale(token, token_expiry, tclock)
                    THEN [pc |-> "exchange", seen |-> seen]
                    ELSE [pc |-> "returned", seen |-> seen, exchanged |-> FALSE,
                          overwrote |-> FALSE]]
     /\ UNCHANGED <<token, token_expiry, tclock, pipeVars, throttleVars, retryVars, bulkVars,
                    pool, rep, meta, walk>>

\* the exchange ends: a good answer is written to the cache, whatever the
\* cache holds by now
TokenExchange(w, answer, newtok, latency) ==
  LET done == tclock + latency
      success == answer = "ok"
  IN /\ thr[w].pc = "exchange"
     /\ done <= MaxTokenClock
     /\ tclock' = done
     /\ token' = IF success THEN newtok ELSE token
     /\ token_expiry' = IF success THEN done + TokenLifetime ELSE token_expiry
     /\ thr' = [thr EXCEPT ![w] =
                  [pc |-> "returned", seen |-> thr[w].seen, exchanged |-> success,
                   overwrote |-> success /\ TokenValid(token, token_expiry, done)]]
     /\ UNCHANGED <<tlast, pipeVars, throttleVars, retryVars, bulkVars, pool, rep, meta, walk>>

\* _get_token returns to its caller
TokenReturn(w) ==
  /\ thr[w].pc = "returned"
  /\ thr' = [thr EXCEPT ![w] = Idle]
  /\ UNCHANGED <<tokenVars, pipeVars, throttleVars, retryVars, bulkVars, pool, rep, meta, walk>>

NextSharedToken ==
  \/ /\ \A w \in Threads : thr[w] = Idle
     /\ \E k \in BOOLEAN : BrazilInit(k)
  \/ \E d \in TokenElapsed : TokenElapse(d)
  \/ \E w \in Threads : TokenCheck(w)
  \/ \E w \in Threads, answer \in AuthAnswers, newtok \in Tokens, latency \in Latency :
       TokenExchange(w, answer, newtok, latency)
  \/ \E w \in Threads : TokenReturn(w)

SpecSharedToken == Init /\ [][NextSharedToken]_vars

\* C23: with one BrazilFetcher shared by unsynchronized threads, a thread
\* exchanges credentials exactly because it saw the cached token absent or
\* expired at its own test; nothing else holds it back, so that two
\* threads can each perform an exchange and the later overwrite the token
\* and expiry of the earlier.
C23_ExchangeAfterOwnStaleObservation ==
  \A w \in Threads :
    (thr[w].pc = "exchange" \/ (thr[w].pc = "returned" /\ thr[w].exchanged))
      => (thr[w].seen.absent \/ thr[w].seen.expired)
\* two threads saw no token and both exchanged; the write of one replaced
\* the still valid token the other had just written
C23_Witness ==
  \E w \in Threads : \E v \in Threads \ {w} :
    /\ thr[w].pc = "returned" /\ thr[w].exchanged
    /\ thr[v].pc = "returned" /\ thr[v].exchanged
    /\ thr[w].seen.absent /\ thr[v].seen.absent
    /\ thr[w].overwrote

(* ---------------------------------------------------------------------- *)
(* The cursor walk of FranceFetcher._download_data.  URI 0 is BASE_URL;    *)
(* the provider is a table that gives, for every URI, how the request is   *)
(* answered and the `next` pointer of the page; the payload of the page at *)
(* URI u is written u.  The walk is followed one loop iteration at a time, *)
(* and its history is kept for the first MaxRequests requests; `parity`    *)
(* is the number of requests sent so far, modulo 2, so that an iteration   *)
(* beyond the kept history is still a step.                                *)
(* ---------------------------------------------------------------------- *)
MaxPages == 3
BASE_URL == 0
NoUri == -1
Uris == 0..(MaxPages - 1)
MaxRequests == MaxPages + 1
Hubeau == [Uris -> [answer : {"ok", "net", "json"}, next : Uris \cup {NoUri}]]

\* params=params if next_uri == self.BASE_URL else None
SendParamsAlways(next_uri, params) == TRUE
SendParams(next_uri, params) == IF next_uri = BASE_URL THEN params ELSE FALSE

\* _download_data up to the while loop
FranceStart(provider) ==
  /\ walk = NoWalk
  /\ walk' = [adapter |-> "france", provider |-> provider, pc |-> "loop",
              next_uri |-> BASE_URL, params |-> TRUE, requests |-> <<>>, all_data |-> <<>>,
              parity |-> 0]
  /\ UNCHANGED <<baseVars, pool, rep, meta, thr>>

\* one iteration of `while next_uri:`
FrancePage ==
  LET u == walk.next_uri
      page == walk.provider[u]
      request == [uri |-> u, params |-> SendParams(u, walk.params)]
      sent == IF Len(walk.requests) < MaxRequests THEN Append(walk.requests, request)
              ELSE walk.requests
      w == [walk EXCEPT !.requests = sent, !.parity = 1 - @]
  IN /\ walk # NoWalk /\ walk.adapter = "france" /\ walk.pc = "loop"
     /\ walk' = IF page.answer # "ok"
                  THEN [w EXCEPT !.pc = "raised"]
                ELSE IF page.next = NoUri
                  THEN [w EXCEPT !.pc = "returned",
                                 !.all_data = Append(@, u), !.next_uri = NoUri]
                ELSE [w EXCEPT !.params = FALSE,
                             !.all_data = IF Len(@) < MaxRequests THEN Append(@, u) ELSE @,
                             !.next_uri = page.next]
     /\ UNCHANGED <<baseVars, pool, rep, meta, thr>>

NextCursor ==
  \/ /\ walk = NoWalk
     /\ \E provider \in Hubeau : FranceStart(provider)
  \/ FrancePage
  \/ /\ walk # NoWalk /\ walk.pc # "loop"
     /\ TakeWalk

SpecCursor == Init /\ [][NextCursor]_vars
\* the thread that runs the walk is scheduled again and again
FairSpecCursor == SpecCursor /\ WF_vars(FrancePage)

\* C24: the France walk sends the query parameters with its first request
\* only, sends every later request to the `next` URI of the page before,
\* stops at the first page without `next`, and returns the pages' data
\* concatenated in order.
C24_CursorFollowedInOrder ==
  (walk # NoWalk /\ walk.adapter = "france") =>
    LET r == walk.requests
        n == Len(r)
    IN /\ \A i \in 1..n : r[i].params <=> i = 1
       /\ \A i \in 1..n : r[i].uri = IF i = 1 THEN BASE_URL
                                     ELSE walk.provider[r[i - 1].uri].next
       /\ \A i \in 1..(n - 1) : /\ walk.provider[r[i].uri].answer = "ok"
                                /\ walk.provider[r[i].uri].next # NoUri
       /\ walk.pc = "returned" =>
            /\ walk.provider[r[n].uri].next = NoUri
            /\ walk.all_data = [i \in 1..n |-> r[i].uri]
\* a walk over three pages, the last one without `next`, has returned
C24_Witness ==
  /\ walk # NoWalk /\ walk.adapter = "france"
  /\ walk.pc = "returned"
  /\ Len(walk.requests) = 3
  /\ walk.all_data = <<0, walk.requests[2].uri, walk.requests[3].uri>>

\* C28: every acquisition walk sends finitely many requests whatever the
\* provider returns; for the France cursor walk: a walk that is in its
\* loop leaves it, returning or raising.
C28_WalkStops ==
  (walk # NoWalk /\ walk.pc = "loop") ~> (walk = NoWalk \/ walk.pc # "loop")

\* C25: BrazilFetcher._download_data sends no data request when the
\* station metadata reports no record of the variable; otherwise it walks
\* the yearly chunks of [start, end] clipped to the declared record period,
\* and sends nothing when the clipped range is empty.
C25_ClipToRecordPeriod ==
  (walk # NoWalk /\ walk.adapter = "brazil" /\ walk.metadata = "ok" /\ TokensPresent) =>
    LET lo == Max(walk.start, walk.record.lo)
        hi == Min(walk.end, walk.record.hi)
        chunks == IF walk.has /\ lo <= hi THEN BrazilChunks(hi, lo) ELSE <<>>
    IN Sent = [i \in DOMAIN chunks |-> DataRequest(chunks[i], TRUE)]

(* ---------------------------------------------------------------------- *)
(* Which transport an adapter's data request goes through: the session of *)
(* requests_retry_session, or requests.get, whose default adapter makes   *)
(* one attempt and retries nothing.                                       *)
(* ---------------------------------------------------------------------- *)
\* the adapters whose _download_data calls requests.get
DirectAdapters == {"sweden", "austria", "germany_berlin"}

\* adapter n issues the request for its data
Issue(n) ==
  /\ rstate \in {"idle", "returned", "raised"}
  /\ fetcher' = n
  /\ rstate' = "sending"
  /\ attempt' = 0
  /\ retry' = InitRetry
  /\ rlast' = <<>>
  /\ UNCHANGED <<hasKey, constructed, call, response, throttleVars, tokenVars, bulkVars, restVars>>

\* requests.get(url, timeout=...): the only attempt
DirectGet(a) ==
  /\ rstate = "sending"
  /\ fetcher \in DirectAdapters
  /\ attempt' = attempt + 1
  /\ rlast' = Append(rlast, a)
  /\ rstate' = IF a.kind = "response" THEN "returned" ELSE "raised"
  /\ UNCHANGED <<retry, pipeVars, throttleVars, tokenVars, bulkVars, restVars>>

NextTransport ==
  \/ \E n \in AdapterNames : Issue(n)
  \/ /\ fetcher \notin DirectAdapters
     /\ \E a \in Answers : Send(a)
  \/ \E a \in Answers : DirectGet(a)

SpecTransport == Init /\ [][NextTransport]_vars

\* C26: every data request of an adapter goes through the retrying
\* transport: a request first answered by 500, 502, 504 or a connection
\* failure is attempted again before it is given up.
C26_EveryRequestRetried ==
  (/\ rstate \in {"returned", "raised"}
   /\ rlast # <<>>
   /\ rlast[1].kind # "response" \/ rlast[1].status \in status_forcelist)
    => attempt >= 2

\* ------------------------------------------- the final date clip of get_data
\* C29: the final date clip keeps every parsed observation of an
\* instantaneous variable whose calendar date lies in [start_date,
\* end_date], at whatever time of day.
C29_ClipKeepsRequestedDays ==
  (/\ response.kind = "frame" /\ response.requested /\ call.outcome = "ok"
   /\ call.variable \in {STAGE_INSTANT, DISCHARGE_INSTANT})
    => LET parsed == _parse_data(AdapterOf(fetcher), call.variable, call.raw)
       IN \A i \in DOMAIN parsed :
            (CalledStart <= DayOf(parsed[i].t) /\ DayOf(parsed[i].t) <= CalledEnd)
              => \E j \in DOMAIN response.rows : response.rows[j] = parsed[i]

====
